---- MODULE Spec2Model ----
(***************************************************************************)
(* A model of bashlex/normalizer.py: normalize_ast (the tree builder and   *)
(* the logic-operator folding of normalize_command), to_list,              *)
(* list_to_tree and to_command.                                            *)
(*                                                                         *)
(* The normalized tree is an arena: tree[i] is the Node with identity i,   *)
(* with the fields the Python object stores (kind, value, parent, lsb,     *)
(* rsb, children).  None is 0.  The recursion of normalize is an explicit  *)
(* call stack of frames.                                                   *)
(***************************************************************************)
EXTENDS Integers, Sequences, FiniteSets, TLC

VARIABLES raw,      \* the raw parser tree handed to normalize (tree[0] of bparser.parse)
          tree,     \* the nodes of normalized_tree, by identity
          stack,    \* the call stack of normalize / normalize_command
          status,   \* where normalize_ast is: running, returned, none, raised
          exc,      \* the exception that ended normalize_ast, "" if none
          walked,   \* history: the tree and the recorded operators as the last
                    \* forward walk of normalize_command left them
          ser,      \* where the serializer run on a returned tree is
          lst,      \* the list built by to_list / read by list_to_tree
          li,       \* list_to_tree: the index i of its loop (1-based)
          current,  \* list_to_tree: the cursor
          tree2,    \* list_to_tree: the nodes of the tree it builds
          cmd,      \* the results of to_command(normalized_tree), strict and loose
          args,     \* the keyword arguments normalize_ast was called with
          fold      \* a leaf value and what normalize_word made of it, once and twice

vars == <<raw, tree, stack, status, exc, walked, ser, lst, li, current, tree2, cmd,
          args, fold>>

None == 0

(***************************************************************************)
(* Bounds of the input space.                                              *)
(***************************************************************************)
MaxShort == 3   \* longest command over the full token alphabet
MaxLong == 5    \* tokens after a leading `find`, over the core alphabet
MaxList == 4    \* longest symbol list handed to list_to_tree directly
MaxArgs == 3    \* longest command run under every choice of keyword arguments
MaxWord == 3    \* longest leaf value, in characters, handed to digit folding

(***************************************************************************)
(* Raw nodes (bast.node): kind, word, parts; src is the text               *)
(* cmd[pos[0]:pos[1]] the node spans.                                      *)
(***************************************************************************)
RawNode(kind, word, src, parts) ==
    [kind |-> kind, word |-> word, src |-> src, parts |-> parts]

Word(w) == RawNode("word", w, w, <<>>)

Quoted(w) == RawNode("word", w, "'" \o w \o "'", <<>>)

unary_logic_operators == {"!", "-not"}

binary_logic_operators == {"-and", "-or", "||", "&&", "-o", "-a"}

\* bash.head_commands / bash.is_headcommand: the catalogue of command names
head_commands == {"find", "rm"}

is_headcommand(word) == word \in head_commands

Seqs(S, n) == UNION {[1..k -> S] : k \in 1..n}

\* A word that holds digits is spelled from these pieces: the characters a,
\* dash, 1 and 2, and the text of bash._NUM, which holds no digit.
Digits == {"1", "2"}

NUM == "_NUM"

Chars == {"a", "-"} \cup Digits \cup {NUM}

RECURSIVE Join(_)
Join(p) == IF p = <<>> THEN "" ELSE Head(p) \o Join(Tail(p))

\* the spelling of every word of at most MaxWord pieces
WordPieces ==
    LET spelt == Seqs(Chars, MaxWord)
    IN  [w \in {Join(p) : p \in spelt} |-> CHOOSE p \in spelt : Join(p) = w]

\* the characters of a word; a word not spelled above holds no digit and
\* counts as one piece
Pieces(w) == IF w \in DOMAIN WordPieces THEN WordPieces[w] ELSE <<w>>

\* bash.is_option: the catalogue's test for an option string (a leading dash)
OptionWords == {"-name", "-not", "-and", "-or", "-o", "-a", "--"}

is_option(word) == word \in OptionWords \/ Head(Pieces(word)) = "-"

RECURSIVE DigitFold(_)
\* re.sub(bash._DIGIT_RE, bash._NUM, w) on the pieces of w: every maximal
\* run of digits gives way to one NUM
DigitFold(p) ==
    IF p = <<>> THEN <<>>
    ELSE IF Head(p) \notin Digits THEN <<Head(p)>> \o DigitFold(Tail(p))
    ELSE IF Len(p) > 1 /\ p[2] \in Digits THEN DigitFold(Tail(p))
    ELSE <<NUM>> \o DigitFold(Tail(p))

(***************************************************************************)
(* Node and the tree helpers.                                              *)
(***************************************************************************)
Node(kind, value) ==
    [kind |-> kind, value |-> value, parent |-> None, lsb |-> None,
     rsb |-> None, children |-> <<>>]

getNumChildren(t, n) == Len(t[n].children)

getRightChild(t, n) ==
    IF Len(t[n].children) >= 1 THEN t[n].children[Len(t[n].children)] ELSE None

is_flag(t, n) == is_option(t[n].value)

IndexOf(s, x) ==
    IF \E i \in 1..Len(s) : s[i] = x
    THEN CHOOSE i \in 1..Len(s) : s[i] = x /\ \A j \in 1..(i - 1) : s[j] # x
    ELSE 0

RemoveAt(s, i) == [j \in 1..(Len(s) - 1) |-> IF j < i THEN s[j] ELSE s[j + 1]]

\* list.remove: the first occurrence goes; the caller checks it is there
removeChild(t, n, child) ==
    [t EXCEPT ![n].children = RemoveAt(@, IndexOf(@, child))]

addChild(t, n, child) == [t EXCEPT ![n].children = Append(@, child)]

attach_to_tree(t, node, parent) ==
    LET l == getRightChild(t, parent)
        t1 == [t EXCEPT ![node].parent = parent, ![node].lsb = l,
                        ![parent].children = Append(@, node)]
    IN  IF l # None THEN [t1 EXCEPT ![l].rsb = node] ELSE t1

\* make_sibling without the assignment to rsb.lsb
make_sibling_left(t, l, r) == IF l # None THEN [t EXCEPT ![l].rsb = r] ELSE t

make_sibling(t, l, r) ==
    LET t1 == IF l # None THEN [t EXCEPT ![l].rsb = r] ELSE t
    IN  IF r # None THEN [t1 EXCEPT ![r].lsb = l] ELSE t1

\* a node constructor followed by attach_to_tree(norm_node, current)
AttachNew(t, kind, value, parent) ==
    attach_to_tree(Append(t, Node(kind, value)), Len(t) + 1, parent)

(***************************************************************************)
(* The closures of normalize_ast.                                          *)
(***************************************************************************)
with_quotation(node) == Len(node.src) - Len(node.word) = 2

recover_quotation(node) == IF with_quotation(node) THEN node.src ELSE node.word

\* normalize_word without the exemption of option strings
normalize_word_any(node, norm_digit, recover_quote) ==
    LET w == IF recover_quote THEN recover_quotation(node) ELSE node.word
    IN  IF norm_digit THEN Join(DigitFold(Pieces(w))) ELSE w

normalize_word(node, norm_digit, recover_quote) ==
    LET w == IF recover_quote THEN recover_quotation(node) ELSE node.word
    IN  IF norm_digit /\ ~is_option(w) THEN Join(DigitFold(Pieces(w))) ELSE w

\* find_flag_attach_point: the node, or None for its ValueError
find_flag_attach_point(t, attach_point) ==
    IF t[attach_point].kind = "flag" THEN t[attach_point].parent
    ELSE IF t[attach_point].kind = "headcommand" THEN attach_point
    ELSE None

IsFindHead(t, parent) ==
    /\ parent # None
    /\ t[parent].kind = "headcommand"
    /\ t[parent].value = "find"

is_unary_logic_op(t, node, parent) ==
    IF node.word = "!" THEN IsFindHead(t, parent)
    ELSE node.word \in unary_logic_operators

\* what is_binary_logic_op leaves in node.word
BinaryWord(t, node, parent) ==
    IF node.word = "-o" /\ IsFindHead(t, parent) THEN "-or"
    ELSE IF node.word = "-a" /\ IsFindHead(t, parent) THEN "-and"
    ELSE node.word

\* is_binary_logic_op without the test for a `find` head command
is_binary_logic_op_any(t, node, parent) == node.word \in binary_logic_operators

is_binary_logic_op(t, node, parent) ==
    IF node.word \in {"-o", "-a"} THEN IsFindHead(t, parent)
    ELSE node.word \in binary_logic_operators

RECURSIVE RawAt(_, _)
RawAt(r, path) ==
    IF path = <<>> THEN r ELSE RawAt(r.parts[Head(path)], Tail(path))

RECURSIVE SetWordAt(_, _, _)
SetWordAt(r, path, w) ==
    IF path = <<>> THEN [r EXCEPT !.word = w]
    ELSE [r EXCEPT !.parts[Head(path)] = SetWordAt(@, Tail(path), w)]

(***************************************************************************)
(* normalize_command: the forward walk over node.parts.                    *)
(***************************************************************************)
Frame(fn, path, cur) ==
    [fn |-> fn, path |-> path, cur |-> cur, i |-> 1, attach_point |-> cur,
     END_OF_OPTIONS |-> FALSE, END_OF_COMMAND |-> FALSE,
     unary_logic_ops |-> <<>>, binary_logic_ops |-> <<>>,
     pc |-> "walk", ui |-> 1, bi |-> 1]

\* the result of one pass of the loop body: the tree, the raw tree, the
\* frame's locals and the exception raised ("" if none)
Out(t, r, f, e) == [tree |-> t, raw |-> r, frame |-> f, exc |-> e]

\* lines 384-392: leaving the sub-utility a `;` ended
EndOfCommand(t, r, f) ==
    LET p == t[f.attach_point].parent
    IN  IF p = None THEN Out(t, r, f, "AttributeError")
        ELSE IF t[p].kind = "flag"
             THEN Out(t, r, [f EXCEPT !.attach_point = t[p].parent,
                                      !.END_OF_COMMAND = FALSE], "")
        ELSE IF t[p].kind = "headcommand"
             THEN Out(t, r, [f EXCEPT !.attach_point = p,
                                      !.END_OF_COMMAND = FALSE], "")
        ELSE Out(t, r, [f EXCEPT !.attach_point = p], "ValueError")

\* normalize(node, current, arg_type) of a word without parts: a leaf
\* `normalize_word(node, normalize_digits, recover_quotation)`: at the call
\* the name recover_quotation is the closure of line 361, a function object
\* and so true, not the keyword argument of normalize_ast
NormalizeLeaf(t, node, cur, arg_type) ==
    AttachNew(t, arg_type, normalize_word(node, args.normalize_digits, TRUE), cur)

attach_option(t, r, f, node, attach_point) ==
    LET ap == find_flag_attach_point(t, attach_point)
    IN  IF ap = None THEN Out(t, r, f, "ValueError")
        ELSE LET t1 == NormalizeLeaf(t, node, ap, "flag")
             IN  Out(t1, r, [f EXCEPT !.attach_point = getRightChild(t1, ap)], "")

\* UnaryToken with the operator taken as the attach point
UnaryToken_descend(t, r, f, child) ==
    LET ap == find_flag_attach_point(t, f.attach_point)
    IN  IF ap = None THEN Out(t, r, f, "ValueError")
        ELSE IF is_unary_logic_op(t, child, ap)
             THEN Out(AttachNew(t, "unarylogicop", child.word, ap), r,
                      [f EXCEPT !.attach_point = Len(t) + 1,
                                !.unary_logic_ops = Append(@, Len(t) + 1)], "")
        ELSE attach_option(t, r, [f EXCEPT !.attach_point = ap], child, ap)

UnaryToken(t, r, f, child) ==
    LET ap == find_flag_attach_point(t, f.attach_point)
    IN  IF ap = None THEN Out(t, r, f, "ValueError")
        ELSE IF is_unary_logic_op(t, child, ap)
             THEN Out(AttachNew(t, "unarylogicop", child.word, ap), r,
                      [f EXCEPT !.attach_point = ap,
                                !.unary_logic_ops = Append(@, Len(t) + 1)], "")
        ELSE attach_option(t, r, [f EXCEPT !.attach_point = ap], child, ap)

BinaryToken(t, r, f, child, path) ==
    LET ap == find_flag_attach_point(t, f.attach_point)
    IN  IF ap = None THEN Out(t, r, f, "ValueError")
        ELSE IF is_binary_logic_op(t, child, ap)
             THEN LET w == BinaryWord(t, child, ap)
                  IN  Out(AttachNew(t, "binarylogicop", w, ap),
                          SetWordAt(r, path, w),
                          [f EXCEPT !.attach_point = ap,
                                    !.binary_logic_ops = Append(@, Len(t) + 1)], "")
        ELSE attach_option(t, r, [f EXCEPT !.attach_point = ap], child, ap)

HeadCommandToken(t, r, f, child) ==
    IF ~with_quotation(child)
    THEN LET t1 == NormalizeLeaf(t, child, f.attach_point, "headcommand")
         IN  Out(t1, r, [f EXCEPT !.attach_point = getRightChild(t1, f.attach_point)], "")
    ELSE Out(t, r, f, "")

ArgumentToken(t, r, f, child) ==
    LET ap == IF is_flag(t, f.attach_point) /\ getNumChildren(t, f.attach_point) >= 1
              THEN t[f.attach_point].parent
              ELSE f.attach_point
    IN  IF ap = None THEN Out(t, r, f, "AttributeError")
        ELSE Out(NormalizeLeaf(t, child, ap, "argument"), r,
                 [f EXCEPT !.attach_point = ap], "")

\* lines 393-431: the classification of one child
Classify(t, r, f, child, path) ==
    IF child.kind = "word" THEN
        IF child.word = "--" THEN Out(t, r, [f EXCEPT !.END_OF_OPTIONS = TRUE], "")
        ELSE IF child.word = ";" THEN Out(t, r, [f EXCEPT !.END_OF_COMMAND = TRUE], "")
        ELSE IF child.word \in unary_logic_operators THEN UnaryToken(t, r, f, child)
        ELSE IF child.word \in binary_logic_operators THEN BinaryToken(t, r, f, child, path)
        ELSE IF is_headcommand(child.word) THEN HeadCommandToken(t, r, f, child)
        ELSE IF is_option(child.word) /\ ~f.END_OF_OPTIONS
             THEN attach_option(t, r, f, child, f.attach_point)
        ELSE ArgumentToken(t, r, f, child)
    ELSE IF child.kind = "assignment" THEN Out(t, r, f, "ValueError")
    ELSE Out(t, r, f, "SystemExit")

\* one pass of `for child in node.parts`
WalkStep(t, r, f) ==
    LET path == f.path \o <<f.i>>
        child == RawAt(r, path)
        a == IF f.END_OF_COMMAND THEN EndOfCommand(t, r, f) ELSE Out(t, r, f, "")
    IN  IF a.exc # "" THEN a ELSE Classify(t, r, a.frame, child, path)

(***************************************************************************)
(* normalize_command: the second pass over the recorded operators.         *)
(***************************************************************************)
\* the result of one fold: the tree and how the pass goes on:
\* "" (next operator), "return" (normalize_command returns) or an exception
Folded(t, e) == [tree |-> t, exc |-> e]

\* lines 434-446, one pass of `for node in unary_logic_ops`
FoldUnary(t, node) ==
    LET rsb == t[node].rsb
    IN  IF rsb = None THEN Folded(t, "return")
        ELSE LET t1 == make_sibling(t, node, t[rsb].rsb)
                 p == t1[node].parent
             IN  IF IndexOf(t1[p].children, rsb) = 0 THEN Folded(t1, "ValueError")
                 ELSE LET t2 == removeChild(t1, p, rsb)
                          t3 == [t2 EXCEPT ![rsb].parent = node,
                                           ![rsb].lsb = None,
                                           ![rsb].rsb = None]
                      IN  Folded(addChild(t3, node, rsb), "")

\* lines 448-467, one pass of `for node in binary_logic_ops`
FoldBinary(t, node) ==
    LET rsb == t[node].rsb
        lsb == t[node].lsb
    IN  IF rsb = None \/ lsb = None THEN Folded(t, "SystemExit")
        ELSE LET t1 == make_sibling(t, node, t[rsb].rsb)
                 t2 == make_sibling(t1, t1[lsb].lsb, node)
                 p == t2[node].parent
             IN  IF IndexOf(t2[p].children, rsb) = 0 THEN Folded(t2, "ValueError")
                 ELSE LET t3 == removeChild(t2, p, rsb)
                      IN  IF IndexOf(t3[p].children, lsb) = 0
                          THEN Folded(t3, "ValueError")
                          ELSE LET t4 == removeChild(t3, p, lsb)
                                   t5 == [t4 EXCEPT ![rsb].parent = node,
                                                    ![lsb].parent = node]
                                   t6 == make_sibling(t5, lsb, rsb)
                                   t7 == [t6 EXCEPT ![rsb].rsb = None,
                                                    ![lsb].lsb = None]
                               IN  Folded(addChild(addChild(t7, node, lsb), node, rsb), "")

(***************************************************************************)
(* The inputs: the raw trees normalize_ast is run on.                      *)
(***************************************************************************)
Semi == RawNode("word", ";", "\\;", <<>>)

Assignment == RawNode("assignment", "x=a", "x=a", <<>>)

Redirect == RawNode("redirect", "", ">a", <<>>)

Compound == RawNode("compound", "", "(a)", <<>>)

Pipe == RawNode("pipe", "|", "|", <<>>)

Operator == RawNode("operator", ";", ";", <<>>)

Command(parts) == RawNode("command", "", "", parts)

ShortTokens ==
    {Word("find"), Word("rm"), Word("a"), Word("-name"), Word("-not"), Word("!"),
     Word("-or"), Word("-o"), Word("--"), Semi, Quoted("find"), Quoted("a"),
     Assignment, Redirect}

\* the words the logic-operator tests tell apart; `&&` and `||` reach
\* normalize_command as words when quoted
LogicTokens ==
    {Word("find"), Word("rm"), Word("a"), Word("-name"), Word("!"), Word("-not"),
     Word("-o"), Word("-a"), Word("-or"), Word("-and"), Quoted("&&"), Quoted("||")}

LongTokens == {Word("rm"), Word("a"), Word("-name"), Word("-not"), Word("-or"), Semi}

SmallCommands ==
    {Command(<<Word("find"), Word("a")>>), Command(<<Word("rm")>>),
     Command(<<Word("find"), Word("-o")>>), Command(<<Word("a")>>)}

Pipelines ==
    {RawNode("pipeline", "", "", <<c, Pipe, d>>) : c \in SmallCommands,
                                                  d \in SmallCommands \cup {Compound}}

Lists ==
    {RawNode("list", "", "", p) :
        p \in {<<c>> : c \in SmallCommands \cup Pipelines}
              \cup {<<c, Operator>> : c \in SmallCommands \cup Pipelines}
              \cup {<<c, Operator, d>> : c \in SmallCommands, d \in SmallCommands}}

\* the commands of at most n tokens, and those of a `find` and at most n more
Commands(tokens, n) == {Command(s) : s \in Seqs(tokens, n)}

FindCommands(tokens, n) == {Command(<<Word("find")>> \o s) : s \in Seqs(tokens, n)}

\* the commands run under every choice of normalize_digits and
\* recover_quotation: words in quotes and words holding digits
ArgTokens ==
    {Word("find"), Word("a"), Word("-name"), Quoted("a"), Quoted("find"),
     Word("a12"), Word("-1")}

\* normalize_ast(cmd, normalize_digits=True, recover_quotation=True)
DefaultArgs == [normalize_digits |-> TRUE, recover_quotation |-> TRUE]

AllArgs == [normalize_digits : BOOLEAN, recover_quotation : BOOLEAN]

\* fold while normalize_word is not run on a value of its own
NotFolded == [word |-> "", once |-> "", twice |-> "", n |-> 0]

Root == 1

\* cmd before to_command has run: ok and text are the strict result, loose
\* is the text of to_command(normalized_tree, loose_constraints=True)
NotRendered == [ok |-> FALSE, text |-> <<>>, loose |-> <<>>]

NotWalked == [tree |-> <<>>, unary |-> <<>>, binary |-> <<>>]

Init ==
    /\ \/ /\ raw \in Commands(ShortTokens, MaxShort)
                       \cup Commands(LogicTokens, MaxShort)
                       \cup FindCommands(LongTokens, MaxLong)
                       \cup Pipelines \cup Lists
          /\ args = DefaultArgs
       \/ /\ raw \in Commands(ArgTokens, MaxArgs)
          /\ args \in AllArgs
    /\ fold = NotFolded
    /\ tree = <<Node("root", "")>>
    /\ stack = <<Frame("normalize", <<>>, Root)>>
    /\ status = "running"
    /\ exc = ""
    /\ walked = NotWalked
    /\ ser = "idle"
    /\ lst = <<>>
    /\ li = 0
    /\ current = None
    /\ tree2 = <<>>
    /\ cmd = NotRendered

(***************************************************************************)
(* normalize_ast: the steps of normalize(tree[0], normalized_tree).        *)
(***************************************************************************)
Top == stack[Len(stack)]

Pop == SubSeq(stack, 1, Len(stack) - 1)

\* an exception leaves normalize: `except ValueError` returns None, every
\* other exception leaves normalize_ast
Raise(e) ==
    /\ status' = IF e = "ValueError" THEN "none" ELSE "raised"
    /\ exc' = e
    /\ stack' = <<>>

serVars == <<ser, lst, li, current, tree2, cmd>>

\* normalize(node, current): the branch of node.kind
NormalizeCall ==
    /\ status = "running" /\ stack # <<>> /\ Top.fn = "normalize"
    /\ LET node == RawAt(raw, Top.path)
       IN  IF node.kind = "pipeline" THEN
               /\ tree' = AttachNew(tree, "pipeline", "", Top.cur)
               /\ IF Len(node.parts) % 2 = 0
                  THEN Raise("SystemExit")
                  ELSE /\ stack' = Append(Pop, Frame("pipeline", Top.path, Len(tree) + 1))
                       /\ UNCHANGED <<status, exc>>
           ELSE IF node.kind = "list" THEN
               /\ tree' = tree
               /\ IF Len(node.parts) > 2 THEN Raise("TypeError")
                  ELSE IF Len(node.parts) = 0 THEN Raise("IndexError")
                  ELSE /\ stack' = Append(Pop, Frame("normalize", Top.path \o <<1>>, Top.cur))
                       /\ UNCHANGED <<status, exc>>
           ELSE IF node.kind = "command" THEN
               /\ tree' = tree
               /\ stack' = Append(Pop, Frame("normalize_command", Top.path, Top.cur))
               /\ UNCHANGED <<status, exc>>
           ELSE /\ tree' = tree
                /\ Raise("ValueError")
    /\ UNCHANGED <<raw, walked, serVars, args, fold>>

\* normalize of a pipeline: one pass of `for child in node.parts`
PipelineStep ==
    /\ status = "running" /\ stack # <<>> /\ Top.fn = "pipeline"
    /\ LET node == RawAt(raw, Top.path)
       IN  IF Top.i > Len(node.parts) THEN
               /\ stack' = Pop
               /\ UNCHANGED <<status, exc>>
           ELSE IF node.parts[Top.i].kind = "command" THEN
               /\ stack' = Append(Append(Pop, [Top EXCEPT !.i = @ + 1]),
                                  Frame("normalize", Top.path \o <<Top.i>>, Top.cur))
               /\ UNCHANGED <<status, exc>>
           ELSE IF node.parts[Top.i].kind = "pipe" THEN
               /\ stack' = Append(Pop, [Top EXCEPT !.i = @ + 1])
               /\ UNCHANGED <<status, exc>>
           ELSE Raise("ValueError")
    /\ UNCHANGED <<raw, tree, walked, serVars, args, fold>>

\* normalize_command: one child of node.parts
WalkToken ==
    /\ status = "running" /\ stack # <<>> /\ Top.fn = "normalize_command"
    /\ Top.pc = "walk"
    /\ LET n == Len(RawAt(raw, Top.path).parts)
           o == WalkStep(tree, raw, Top)
       IN  /\ Top.i <= n
           /\ tree' = o.tree
           /\ raw' = o.raw
           /\ IF o.exc # "" THEN Raise(o.exc)
              ELSE /\ stack' = Append(Pop, [o.frame EXCEPT !.i = @ + 1,
                                              !.pc = IF Top.i = n THEN "fold" ELSE "walk"])
                   /\ UNCHANGED <<status, exc>>
           /\ walked' = IF o.exc = "" /\ Top.i = n
                        THEN [tree |-> o.tree, unary |-> o.frame.unary_logic_ops,
                              binary |-> o.frame.binary_logic_ops]
                        ELSE walked
    /\ UNCHANGED <<serVars, args, fold>>

\* normalize_command: one operator of unary_logic_ops
FoldUnaryStep ==
    /\ status = "running" /\ stack # <<>> /\ Top.fn = "normalize_command"
    /\ Top.pc = "fold" /\ Top.ui <= Len(Top.unary_logic_ops)
    /\ LET o == FoldUnary(tree, Top.unary_logic_ops[Top.ui])
       IN  /\ tree' = o.tree
           /\ IF o.exc = "" THEN /\ stack' = Append(Pop, [Top EXCEPT !.ui = @ + 1])
                                 /\ UNCHANGED <<status, exc>>
              ELSE IF o.exc = "return" THEN /\ stack' = Pop
                                            /\ UNCHANGED <<status, exc>>
              ELSE Raise(o.exc)
    /\ UNCHANGED <<raw, walked, serVars, args, fold>>

\* FoldBinaryStep without waiting for the loop over unary_logic_ops to end
FoldBinaryStep_early ==
    /\ status = "running" /\ stack # <<>> /\ Top.fn = "normalize_command"
    /\ Top.pc = "fold"
    /\ Top.bi <= Len(Top.binary_logic_ops)
    /\ LET o == FoldBinary(tree, Top.binary_logic_ops[Top.bi])
       IN  /\ tree' = o.tree
           /\ IF o.exc = "" THEN /\ stack' = Append(Pop, [Top EXCEPT !.bi = @ + 1])
                                 /\ UNCHANGED <<status, exc>>
              ELSE Raise(o.exc)
    /\ UNCHANGED <<raw, walked, serVars, args, fold>>

\* normalize_command: one operator of binary_logic_ops
FoldBinaryStep ==
    /\ status = "running" /\ stack # <<>> /\ Top.fn = "normalize_command"
    /\ Top.pc = "fold" /\ Top.ui > Len(Top.unary_logic_ops)
    /\ Top.bi <= Len(Top.binary_logic_ops)
    /\ LET o == FoldBinary(tree, Top.binary_logic_ops[Top.bi])
       IN  /\ tree' = o.tree
           /\ IF o.exc = "" THEN /\ stack' = Append(Pop, [Top EXCEPT !.bi = @ + 1])
                                 /\ UNCHANGED <<status, exc>>
              ELSE Raise(o.exc)
    /\ UNCHANGED <<raw, walked, serVars, args, fold>>

\* normalize_command falls off its end
CommandReturn ==
    /\ status = "running" /\ stack # <<>> /\ Top.fn = "normalize_command"
    /\ Top.pc = "fold" /\ Top.ui > Len(Top.unary_logic_ops)
    /\ Top.bi > Len(Top.binary_logic_ops)
    /\ stack' = Pop
    /\ UNCHANGED <<raw, tree, status, exc, walked, serVars, args, fold>>

\* line 613: return normalized_tree
Return ==
    /\ status = "running" /\ stack = <<>>
    /\ status' = "returned"
    /\ UNCHANGED <<raw, tree, stack, exc, walked, serVars, args, fold>>

(***************************************************************************)
(* The serializer: to_list, list_to_tree, to_command.                      *)
(***************************************************************************)
Kinds ==
    {"", "root", "pipeline", "headcommand", "flag", "argument", "unarylogicop",
     "binarylogicop", "commandsubstitution", "processsubstitution"}

\* str.upper on a kind
upper(kind) ==
    CASE kind = "root" -> "ROOT"
      [] kind = "pipeline" -> "PIPELINE"
      [] kind = "headcommand" -> "HEADCOMMAND"
      [] kind = "flag" -> "FLAG"
      [] kind = "argument" -> "ARGUMENT"
      [] kind = "unarylogicop" -> "UNARYLOGICOP"
      [] kind = "binarylogicop" -> "BINARYLOGICOP"
      [] kind = "commandsubstitution" -> "COMMANDSUBSTITUTION"
      [] kind = "processsubstitution" -> "PROCESSSUBSTITUTION"
      [] OTHER -> ""

\* str.lower on the text before the first underscore of a symbol
lower(text) ==
    CASE text = "ROOT" -> "root"
      [] text = "PIPELINE" -> "pipeline"
      [] text = "HEADCOMMAND" -> "headcommand"
      [] text = "FLAG" -> "flag"
      [] text = "ARGUMENT" -> "argument"
      [] text = "UNARYLOGICOP" -> "unarylogicop"
      [] text = "BINARYLOGICOP" -> "binarylogicop"
      [] text = "COMMANDSUBSTITUTION" -> "commandsubstitution"
      [] text = "PROCESSSUBSTITUTION" -> "processsubstitution"
      [] OTHER -> ""

\* Node.symbol
symbol(node) == upper(node.kind) \o "_" \o node.value

NO_EXPAND == "<NO_EXPAND>"

\* the values a node of the model can hold
Values ==
    {"", "root", "find", "rm", "a", "-name", "-not", "!", "-or", "-and", "-o", "-a",
     "--", ";", "'find'", "'a'", "a12", "a" \o NUM, "-1", "&&", "||"}

\* symbol.split('_', 1): the texts before and after the first underscore (no
\* kind holds one), or <<>> for a symbol without underscore
Split(sym) ==
    LET halves == {h \in {upper(k) : k \in Kinds} \X Values : h[1] \o "_" \o h[2] = sym}
    IN  IF halves = {} THEN <<>> ELSE CHOOSE h \in halves : TRUE

RECURSIVE to_list(_, _)
RECURSIVE ListChildren(_, _)
\* `for child in node.children: to_list(child, order, list)`
ListChildren(t, kids) ==
    IF kids = <<>> THEN <<>>
    ELSE to_list(t, Head(kids)) \o ListChildren(t, Tail(kids))

to_list(t, node) ==
    <<symbol(t[node])>> \o ListChildren(t, t[node].children) \o <<NO_EXPAND>>

\* to_command's result: ok is FALSE for an AssertionError; text is the string,
\* as the sequence of its values, literals and single spaces
Text(text) == [ok |-> TRUE, text |-> text]

Failed == [ok |-> FALSE, text |-> <<>>]

Cat(a, b) == IF a.ok /\ b.ok THEN Text(a.text \o b.text) ELSE Failed

Str(s) == IF s = "" THEN Text(<<>>) ELSE Text(<<s>>)

Space == Text(<<" ">>)

RECURSIVE lstrip(_)
lstrip(s) == IF s # <<>> /\ Head(s) = " " THEN lstrip(Tail(s)) ELSE s

RECURSIVE rstrip(_)
rstrip(s) ==
    IF s # <<>> /\ s[Len(s)] = " " THEN rstrip(SubSeq(s, 1, Len(s) - 1)) ELSE s

\* str.strip
strip(a) == IF a.ok THEN Text(lstrip(rstrip(a.text))) ELSE Failed

RECURSIVE to_command(_, _, _)
RECURSIVE EachChild(_, _, _)
RECURSIVE PipeChildren(_, _, _)
\* `for child in ...: cmd += to_command(child, lc) + ' '`
EachChild(t, kids, lc) ==
    IF kids = <<>> THEN Text(<<>>)
    ELSE Cat(Cat(to_command(t, Head(kids), lc), Space), EachChild(t, Tail(kids), lc))

\* `for child in node.children[:-1]: cmd += to_command(child, lc); cmd += " | "`
PipeChildren(t, kids, lc) ==
    IF kids = <<>> THEN Text(<<>>)
    ELSE Cat(Cat(to_command(t, Head(kids), lc), Text(<<" ", "|", " ">>)),
             PipeChildren(t, Tail(kids), lc))

to_command(t, node, lc) ==
    LET n == t[node]
        num == Len(n.children)
        kids == n.children
    IN  IF n.kind = "root" THEN
            IF ~(lc \/ num = 1) THEN Failed
            ELSE IF lc THEN EachChild(t, kids, lc)
            ELSE to_command(t, kids[1], lc)
        ELSE IF n.kind = "pipeline" THEN
            IF ~(lc \/ num > 1) THEN Failed
            ELSE IF lc /\ num < 1 THEN Text(<<"|">>)
            ELSE IF lc /\ num = 1 THEN to_command(t, kids[1], lc)
            ELSE Cat(PipeChildren(t, SubSeq(kids, 1, num - 1), lc),
                     to_command(t, kids[num], lc))
        ELSE IF n.kind = "commandsubstitution" THEN
            IF ~(lc \/ num = 1) THEN Failed
            ELSE IF lc /\ num < 1 THEN Text(<<"$(", ")">>)
            ELSE Cat(Cat(Text(<<"$(">>), to_command(t, kids[1], lc)), Text(<<")">>))
        ELSE IF n.kind = "processsubstitution" THEN
            IF ~(lc \/ num = 1) THEN Failed
            ELSE IF lc /\ num < 1 THEN Text(<<n.value, "(", ")">>)
            ELSE Cat(Cat(Text(<<n.value, "(">>), to_command(t, kids[1], lc)),
                     Text(<<")">>))
        ELSE IF n.kind \in {"headcommand", "flag"} THEN
            strip(Cat(Cat(Str(n.value), Space), EachChild(t, kids, lc)))
        ELSE IF n.kind = "binarylogicop" THEN
            IF ~(lc \/ num = 2) THEN Failed
            ELSE IF lc /\ num < 2 THEN EachChild(t, kids, lc)
            ELSE strip(Cat(Cat(Cat(to_command(t, kids[1], lc), Space),
                               Cat(Str(n.value), Space)),
                           Cat(to_command(t, kids[2], lc), Space)))
        ELSE IF n.kind = "unarylogicop" THEN
            IF ~(lc \/ num = 1) THEN Failed
            ELSE IF lc /\ num < 1 THEN Str(n.value)
            ELSE strip(Cat(Cat(Str(n.value), Space),
                           Cat(to_command(t, kids[1], lc), Space)))
        ELSE IF n.kind = "argument" THEN
            IF ~(lc \/ num = 0) THEN Failed
            ELSE IF lc THEN strip(Cat(Cat(Str(n.value), Space), EachChild(t, kids, lc)))
            ELSE Str(n.value)
        ELSE Text(<<>>)

\* to_list(norm_tree, 'dfs', [])
ToList ==
    /\ status = "returned" /\ ser = "idle"
    /\ lst' = to_list(tree, Root)
    /\ ser' = "listed"
    /\ UNCHANGED <<args, fold, raw, tree, stack, status, exc, walked, li, current, tree2, cmd>>

\* list_to_tree, lines 288-289: the synthetic root and the cursor
ListToTreeStart ==
    /\ ser = "listed"
    /\ tree2' = <<Node("root", "root")>>
    /\ current' = Root
    /\ li' = 2
    /\ ser' = "rebuilding"
    /\ UNCHANGED <<args, fold, raw, tree, stack, status, exc, walked, lst, cmd>>

\* list_to_tree, one pass of `for i in xrange(1, len(list))`
ListToTreeStep ==
    /\ ser = "rebuilding" /\ li <= Len(lst) /\ current # None
    /\ IF lst[li] = NO_EXPAND THEN
           /\ current' = tree2[current].parent
           /\ UNCHANGED tree2
           /\ ser' = ser
       ELSE IF Split(lst[li]) = <<>> THEN
           /\ UNCHANGED <<current, tree2>>
           /\ ser' = "ValueError"
       ELSE
           /\ tree2' = AttachNew(tree2, lower(Split(lst[li])[1]), Split(lst[li])[2],
                                 current)
           /\ current' = Len(tree2) + 1
           /\ ser' = ser
    /\ li' = li + 1
    /\ UNCHANGED <<args, fold, raw, tree, stack, status, exc, walked, lst, cmd>>

\* list_to_tree, line 305: return root (after the loop, or its break)
ListToTreeReturn ==
    /\ ser = "rebuilding" /\ (li > Len(lst) \/ current = None)
    /\ ser' = "rebuilt"
    /\ UNCHANGED <<args, fold, raw, tree, stack, status, exc, walked, lst, li, current, tree2, cmd>>

\* to_command(normalized_tree), strict, and under loose constraints
ToCommand ==
    /\ status = "returned" /\ ser = "rebuilt"
    /\ cmd' = [ok |-> to_command(tree, Root, FALSE).ok,
               text |-> to_command(tree, Root, FALSE).text,
               loose |-> to_command(tree, Root, TRUE).text]
    /\ ser' = "rendered"
    /\ UNCHANGED <<args, fold, raw, tree, stack, status, exc, walked, lst, li, current, tree2>>

Next ==
    \/ NormalizeCall
    \/ PipelineStep
    \/ WalkToken
    \/ FoldUnaryStep
    \/ FoldBinaryStep
    \/ CommandReturn
    \/ Return
    \/ ToList
    \/ ListToTreeStart
    \/ ListToTreeStep
    \/ ListToTreeReturn
    \/ ToCommand

Spec == Init /\ [][Next]_vars

(***************************************************************************)
(* list_to_tree run on a symbol list of the caller's.                      *)
(***************************************************************************)
ListSymbols == {"HEADCOMMAND_find", "FLAG_-name", "ARGUMENT_a", NO_EXPAND, "<PAD>"}

InitList ==
    /\ raw = Command(<<>>)
    /\ args = DefaultArgs
    /\ fold = NotFolded
    /\ tree = <<Node("root", "")>>
    /\ stack = <<>>
    /\ status = "direct"
    /\ exc = ""
    /\ walked = NotWalked
    /\ ser = "listed"
    /\ lst \in {<<"ROOT_">> \o s : s \in Seqs(ListSymbols, MaxList)}
    /\ li = 0
    /\ current = None
    /\ tree2 = <<>>
    /\ cmd = NotRendered

NextList == ListToTreeStart \/ ListToTreeStep \/ ListToTreeReturn

SpecList == InitList /\ [][NextList]_vars

(***************************************************************************)
(* normalize_word run on a leaf value of the caller's, and again on what   *)
(* it returned.                                                            *)
(***************************************************************************)
InitFold ==
    /\ raw = Command(<<>>)
    /\ args \in AllArgs
    /\ fold \in {[NotFolded EXCEPT !.word = w] : w \in DOMAIN WordPieces}
    /\ tree = <<Node("root", "")>>
    /\ stack = <<>>
    /\ status = "direct"
    /\ exc = ""
    /\ walked = NotWalked
    /\ ser = "idle"
    /\ lst = <<>>
    /\ li = 0
    /\ current = None
    /\ tree2 = <<>>
    /\ cmd = NotRendered

FoldStep ==
    /\ status = "direct" /\ fold.word # "" /\ fold.n < 2
    /\ fold' = IF fold.n = 0
               THEN [fold EXCEPT !.n = 1,
                         !.once = normalize_word(Word(fold.word),
                                                 args.normalize_digits, TRUE)]
               ELSE [fold EXCEPT !.n = 2,
                         !.twice = normalize_word(Word(fold.once),
                                                  args.normalize_digits, TRUE)]
    /\ UNCHANGED <<args, raw, tree, stack, status, exc, walked, serVars>>

NextFold == FoldStep

SpecFold == InitFold /\ [][NextFold]_vars

(***************************************************************************)
(* Properties.                                                             *)
(***************************************************************************)
RECURSIVE SameTree(_, _, _, _)
\* the subtree of a in t and of b in u agree node for node
SameTree(t, a, u, b) ==
    /\ t[a].kind = u[b].kind
    /\ t[a].value = u[b].value
    /\ Len(t[a].children) = Len(u[b].children)
    /\ \A i \in 1..Len(t[a].children) :
           SameTree(t, t[a].children[i], u, u[b].children[i])

Returned == status = "returned"

\* the root holds one child, a head command or a pipeline
WellFormedRoot ==
    /\ Len(tree[Root].children) = 1
    /\ tree[tree[Root].children[1]].kind \in {"headcommand", "pipeline"}

\* C1: for a tree normalize_ast returned (its root holding one child),
\* list_to_tree(to_list(T)) equals T
\* node for node, the root included, and to_list of the rebuilt tree is the
\* same symbol list.
C1_RoundTrip ==
    (Returned /\ ser \in {"rebuilt", "rendered"} /\ WellFormedRoot) =>
        /\ SameTree(tree, Root, tree2, Root)
        /\ to_list(tree2, Root) = lst

NonSpace(text) == SelectSeq(text, LAMBDA x : x # " ")

IsLogicWord(w) == w \in unary_logic_operators \cup binary_logic_operators

\* a command of word tokens led by an unquoted head command, without logic
\* operators
PlainCommand(r) ==
    /\ r.kind = "command"
    /\ \A i \in 1..Len(r.parts) :
           r.parts[i].kind = "word" /\ ~IsLogicWord(r.parts[i].word)
    /\ is_headcommand(r.parts[1].word) /\ ~with_quotation(r.parts[1])

\* C2: for a command of supported constructs without logic operators that
\* normalize_ast returned a tree for, strict to_command gives back every token
\* of the command, in order (each as its bare word or as its quoted source).
C2_RenderReproduces ==
    (Returned /\ ser = "rendered" /\ PlainCommand(raw)) =>
        /\ cmd.ok
        /\ Len(NonSpace(cmd.text)) = Len(raw.parts)
        /\ \A i \in 1..Len(raw.parts) :
               NonSpace(cmd.text)[i] \in {raw.parts[i].word, raw.parts[i].src}

\* C3: normalize_ast ends by returning a tree or None; no exception and no
\* process exit leaves it.
C3_NothingEscapes == status \in {"running", "returned", "none"}

\* the list ends with the cursor below the root, or goes on with a symbol
\* other than padding after an end marker was consumed at the root
Malformed ==
    \/ current \notin {None, Root}
    \/ /\ current = None
       /\ \E i \in li..Len(lst) : lst[i] # "<PAD>"

\* C4: list_to_tree returns no tree for a list that consumes an end marker at
\* the root and goes on, or that ends with the cursor at a node other than
\* the root.
C4_MalformedReported == (ser = "rebuilt") => ~Malformed

RECURSIVE InSubtree(_, _, _)
\* node n is a or below a
InSubtree(t, a, n) ==
    \/ a = n
    \/ \E i \in 1..Len(t[a].children) : InSubtree(t, t[a].children[i], n)

Range(s) == {s[i] : i \in 1..Len(s)}

\* C5: in a returned tree, a binary operator that had a left and a right
\* sibling when the forward walk ended has exactly two children, which hold
\* its former left and right sibling in this order and are no longer children
\* of the operator's owner.
C5_BinaryFolded ==
    Returned =>
        \A n \in Range(walked.binary) :
            (walked.tree[n].lsb # None /\ walked.tree[n].rsb # None) =>
                /\ Len(tree[n].children) = 2
                /\ InSubtree(tree, tree[n].children[1], walked.tree[n].lsb)
                /\ InSubtree(tree, tree[n].children[2], walked.tree[n].rsb)
                /\ \A c \in Range(tree[n].children) :
                       /\ tree[c].parent = n
                       /\ c \notin Range(tree[tree[n].parent].children)

\* C6: in a returned tree, every unary operator that had a right sibling when
\* the forward walk ended has exactly one child, that sibling, and the
\* sibling's former right neighbour as its right sibling.
C6_UnaryFolded ==
    Returned =>
        \A n \in Range(walked.unary) :
            walked.tree[n].rsb # None =>
                /\ tree[n].children = <<walked.tree[n].rsb>>
                /\ tree[walked.tree[n].rsb].parent = n

RECURSIVE SkipFoldUnary(_, _)
\* the unary pass that leaves an operator without right sibling alone and
\* goes on with the next
SkipFoldUnary(t, ops) ==
    IF ops = <<>> THEN Folded(t, "")
    ELSE LET o == FoldUnary(t, Head(ops))
         IN  IF o.exc \in {"", "return"} THEN SkipFoldUnary(o.tree, Tail(ops))
             ELSE o

RECURSIVE FoldBinaryAll(_, _)
FoldBinaryAll(t, ops) ==
    IF ops = <<>> THEN Folded(t, "")
    ELSE LET o == FoldBinary(t, Head(ops))
         IN  IF o.exc = "" THEN FoldBinaryAll(o.tree, Tail(ops)) ELSE o

\* the second pass with the operators without right sibling left out
SkipFold(w) ==
    LET u == SkipFoldUnary(w.tree, w.unary)
    IN  IF u.exc = "" THEN FoldBinaryAll(u.tree, w.binary) ELSE u

RECURSIVE HasDangling(_, _)
\* some operator of ops has no right sibling at its turn of the unary pass
HasDangling(t, ops) ==
    /\ ops # <<>>
    /\ LET o == FoldUnary(t, Head(ops))
       IN  \/ o.exc = "return"
           \/ o.exc = "" /\ HasDangling(o.tree, Tail(ops))

\* C7: when a unary operator has no right sibling at fold time and every
\* other recorded operator can be folded, the returned tree is the one with
\* all the other operators folded.
C7_OnlyDanglingLeft ==
    (Returned /\ raw.kind = "command" /\ HasDangling(walked.tree, walked.unary)
        /\ SkipFold(walked).exc = "") =>
        tree = SkipFold(walked).tree

Walking ==
    /\ status = "running" /\ stack # <<>>
    /\ Top.fn = "normalize_command" /\ Top.pc = "walk"

NewNodes == {n \in 1..Len(tree') : n > Len(tree)}

\* C8: once `--` was seen END_OF_OPTIONS stays set for the rest of the
\* command, and a token walked with it set (below a head command) adds no
\* flag, no logic operator and no head command to the tree.
C8_EndOfOptions ==
    [][(Walking /\ Top.END_OF_OPTIONS
          /\ tree[Top.attach_point].kind \in {"headcommand", "flag"}) =>
          /\ \A n \in NewNodes : tree'[n].kind = "argument"
          /\ (status' = "running" /\ stack' # <<>>
                 /\ stack'[Len(stack')].fn = "normalize_command")
               => stack'[Len(stack')].END_OF_OPTIONS]_vars

\* C9: normalizing a raw list of other than one part gives no tree.
C9_ListLength == (raw.kind = "list" /\ Len(raw.parts) # 1) => ~Returned

\* the attach point is the top-level head command, or a flag of it
TopLevelPoint(t, ap) ==
    LET h == IF t[ap].kind = "flag" THEN t[ap].parent ELSE ap
    IN  /\ t[ap].kind \in {"headcommand", "flag"}
        /\ t[h].kind = "headcommand"
        /\ t[t[h].parent].kind \in {"root", "pipeline"}

\* C10: the token after a `;`, walked while the attach point is the top-level
\* head command or a flag of it, makes normalize_ast return None.
C10_BareSeparatorFails ==
    [][(Walking /\ Top.END_OF_COMMAND /\ TopLevelPoint(tree, Top.attach_point))
          => status' = "none"]_vars

\* C11: in a returned tree every node of kind flag holds at most one child.
C11_FlagOneChild ==
    Returned => \A n \in 1..Len(tree) :
                    tree[n].kind = "flag" => Len(tree[n].children) <= 1

\* C12: in a returned tree every binary logic operator holds exactly two
\* children.
C12_BinaryTwoChildren ==
    Returned => \A n \in 1..Len(tree) :
                    tree[n].kind = "binarylogicop" => Len(tree[n].children) = 2

\* C13: in a returned tree the root holds exactly one child, a head command
\* or a pipeline.
C13_RootOneChild == Returned => WellFormedRoot

\* the Grammar Table's bound on the children of a node kind, -1 for none
GrammarBound(kind) ==
    CASE kind = "argument" -> 0
      [] kind \in {"unarylogicop", "commandsubstitution", "processsubstitution"} -> 1
      [] kind = "binarylogicop" -> 2
      [] OTHER -> -1

WithinGrammar(t) ==
    \A n \in 1..Len(t) :
        GrammarBound(t[n].kind) >= 0 => Len(t[n].children) <= GrammarBound(t[n].kind)

\* C14: no sequence of attach_to_tree calls gives a node more children than
\* the Grammar Table allows its kind: neither in the tree normalize builds
\* nor in the tree list_to_tree builds.
C14_AttachWithinGrammar == WithinGrammar(tree) /\ WithinGrammar(tree2)

\* a node of t, below the root, whose number of children breaks the arity of
\* its kind
ArityViolation(t) ==
    \E n \in 1..Len(t) :
        /\ InSubtree(t, Root, n)
        /\ LET k == t[n].kind
               c == Len(t[n].children)
           IN  \/ k = "root" /\ c # 1
               \/ k = "pipeline" /\ c < 2
               \/ k \in {"commandsubstitution", "processsubstitution"} /\ c # 1
               \/ k = "binarylogicop" /\ c # 2
               \/ k = "unarylogicop" /\ c # 1
               \/ k = "argument" /\ c # 0
               \/ k = "flag" /\ c > 1

\* C15: to_command under strict constraints fails on every tree that holds
\* a node breaking the arity of its kind.
C15_StrictFailsOnArity ==
    (ser = "rendered" /\ ArityViolation(tree)) => ~cmd.ok

\* C16: where strict rendering succeeds, rendering under loose constraints
\* returns the same string: at the root, and at every node below it.
C16_LooseEqualsStrict ==
    (ser = "rendered" /\ cmd.ok) =>
        /\ cmd.loose = cmd.text
        /\ \A n \in 1..Len(tree) :
               to_command(tree, n, FALSE).ok =>
                   to_command(tree, n, TRUE) = to_command(tree, n, FALSE)

\* the token the forward walk is at
Token == RawAt(raw, Top.path \o <<Top.i>>)

\* C17: the keyword argument recover_quotation decides the value of a leaf
\* (digit folding off): set, a token in quotes gives its source text with
\* the quotes; not set, every token gives its bare word.
C17_RecoverQuotationParameter ==
    [][(Walking /\ ~args.normalize_digits) =>
          \A n \in NewNodes :
              tree'[n].value = IF args.recover_quotation /\ with_quotation(Token)
                               THEN Token.src
                               ELSE Token.word]_vars

\* the pairs of neighbouring digits of p: the later one adds no piece
Squeezed(p) == {j \in 2..Len(p) : p[j] \in Digits /\ p[j - 1] \in Digits}

\* q is p with every maximal run of digits replaced by one NUM
FoldedOf(p, q) ==
    /\ Len(q) = Len(p) - Cardinality(Squeezed(p))
    /\ \A i \in 1..Len(p) :
           q[i - Cardinality({j \in Squeezed(p) : j <= i})] =
               IF p[i] \in Digits THEN NUM ELSE p[i]

C19_OneNodePerToken ==
    [][(Walking /\ Token.kind = "word" /\ Token.word \notin {"--", ";"}
          /\ status' = "running")
         => Cardinality(NewNodes) = 1]_vars

\* C20: no step of normalize_ast changes the raw tree.
C20_RawUnchanged == [][raw' = raw]_vars

\* the head command of the utility the attach point is in
UtilityHead(t, ap) == IF t[ap].kind = "flag" THEN t[ap].parent ELSE ap

\* the attach point is in a sub-utility: its head command is owned by a
\* flag of another head command
InSubUtility(t, ap) ==
    LET h == UtilityHead(t, ap)
    IN  /\ t[ap].kind \in {"headcommand", "flag"}
        /\ h # None /\ t[h].kind = "headcommand"
        /\ t[h].parent # None /\ t[t[h].parent].kind = "flag"
        /\ t[t[h].parent].parent # None
        /\ t[t[t[h].parent].parent].kind = "headcommand"

\* the head command that owns the flag the sub-utility hangs on
Owner(t, ap) == t[t[UtilityHead(t, ap)].parent].parent

\* C21: the token after a `;` that ended a sub-utility is attached under the
\* head command owning the flag of that sub-utility, and END_OF_COMMAND is
\* clear again afterwards.
C21_SeparatorLeavesSubUtility ==
    [][(Walking /\ Top.END_OF_COMMAND /\ InSubUtility(tree, Top.attach_point)
          /\ status' = "running")
         => /\ \A n \in NewNodes : tree'[n].parent = Owner(tree, Top.attach_point)
            /\ Token.word # ";" => ~stack'[Len(stack')].END_OF_COMMAND]_vars

LogicKinds == {"unarylogicop", "binarylogicop"}

\* the frame of normalize_command after the step
NextFrame == stack'[Len(stack')]

\* the operators the frame f has recorded
Recorded(f) == Range(f.unary_logic_ops) \cup Range(f.binary_logic_ops)

\* C22 as stated: a logic operator the forward walk adds becomes the attach
\* point for the next token.
C22_OperatorBecomesAttachPoint ==
    [][(Walking /\ status' = "running") =>
          \A n \in NewNodes :
              tree'[n].kind \in LogicKinds => NextFrame.attach_point = n]_vars

\* the token before the one the walk is at was a logic operator, and the
\* last node of the tree is the operator node it was given
AfterOperator ==
    /\ Top.i > 1 /\ ~Top.END_OF_COMMAND
    /\ IsLogicWord(RawAt(raw, Top.path \o <<Top.i - 1>>).word)
    /\ tree[Len(tree)].kind \in LogicKinds
    /\ Len(tree) \in Recorded(Top)

\* C22, amended: a logic operator the forward walk adds is recorded and
\* attached under the node find_flag_attach_point chose, which is the attach
\* point for the next token; an argument right after the operator is
\* attached beside it, as its right sibling.
C22_OperatorBesideAttachPoint ==
    [][(Walking /\ status' = "running") =>
          \A n \in NewNodes :
              /\ tree'[n].kind \in LogicKinds =>
                     /\ n \in Recorded(NextFrame)
                     /\ NextFrame.attach_point = tree'[n].parent
              /\ (tree'[n].kind = "argument" /\ AfterOperator) =>
                     /\ tree'[n].parent = tree[Len(tree)].parent
                     /\ tree'[n].lsb = Len(tree)
                     /\ tree'[Len(tree)].rsb = n]_vars

\* in the forward walk an argument stands right of an operator not yet folded
C22_Witness ==
    /\ Walking
    /\ \E n \in 1..Len(tree) :
           /\ tree[n].kind = "argument" /\ tree[n].lsb # None
           /\ tree[tree[n].lsb].kind \in LogicKinds
           /\ tree[tree[n].lsb].children = <<>>
           /\ Top.attach_point = tree[n].parent

\* C23: a `-o` / `-a` token gives a binary operator, stored as `-or` /
\* `-and`, exactly when the node it is attached under is a `find` head
\* command, and a flag of its own spelling otherwise; `!` gives a unary
\* operator exactly under `find` and a flag otherwise; `-not`, `-and`, `-or`,
\* `&&`, `||` give operators wherever they are attached; and no operator
\* node ever holds the value `-o` or `-a`.
C23_OperatorClassification ==
    [][/\ (Walking /\ status' = "running" /\ Token.kind = "word") =>
              \A n \in NewNodes :
                  LET w == Token.word
                      find == IsFindHead(tree, tree'[n].parent)
                      node == <<tree'[n].kind, tree'[n].value>>
                  IN  /\ w = "-o" => node = IF find THEN <<"binarylogicop", "-or">>
                                            ELSE <<"flag", "-o">>
                      /\ w = "-a" => node = IF find THEN <<"binarylogicop", "-and">>
                                            ELSE <<"flag", "-a">>
                      /\ w = "!" => node = IF find THEN <<"unarylogicop", "!">>
                                           ELSE <<"flag", "!">>
                      /\ w = "-not" => node = <<"unarylogicop", w>>
                      /\ w \in {"-and", "-or", "&&", "||"} => node = <<"binarylogicop", w>>
       /\ \A n \in 1..Len(tree') :
              tree'[n].kind \in LogicKinds => tree'[n].value \notin {"-o", "-a"}]_vars

\* a tree was returned in which a `-o` of the command is the operator `-or`
C23_Witness ==
    /\ Returned /\ raw.kind = "command"
    /\ \E i \in 1..Len(raw.parts) : raw.parts[i].src = "-o"
    /\ \E n \in 1..Len(tree) :
           tree[n].kind = "binarylogicop" /\ tree[n].value = "-or"
    /\ \A i \in 1..Len(raw.parts) : raw.parts[i].src # "-or"

\* normalize_command is in its second pass
Folding ==
    /\ status = "running" /\ stack # <<>>
    /\ Top.fn = "normalize_command" /\ Top.pc = "fold"

\* the operators the step folds: they are given children
Gained ==
    {n \in 1..Len(tree) : /\ tree[n].kind \in LogicKinds
                          /\ Len(tree'[n].children) > Len(tree[n].children)}

IsFolded(n) == tree[n].children # <<>>

\* C24 as stated: an operator is folded only when every operator the walk
\* recorded before it (the nodes are numbered as they are made) is folded.
C24_FoldInRecordingOrder ==
    [][Folding => \A n \in Gained :
                      \A m \in Recorded(Top) : m < n => IsFolded(m)]_vars

\* C24, amended: the unary operators are folded in the order recorded, before
\* any binary operator; the binary operators are folded in the order
\* recorded, after every unary operator.
C24_UnaryThenBinary ==
    [][Folding =>
          \A n \in Gained :
              /\ n \in Recorded(Top)
              /\ tree[n].kind = "unarylogicop" =>
                     /\ \A m \in Range(Top.unary_logic_ops) : m < n => IsFolded(m)
                     /\ \A m \in Range(Top.binary_logic_ops) : ~IsFolded(m)
              /\ tree[n].kind = "binarylogicop" =>
                     /\ \A m \in Range(Top.unary_logic_ops) : IsFolded(m)
                     /\ \A m \in Range(Top.binary_logic_ops) : m < n => IsFolded(m)]_vars

\* a unary operator is folded while a binary operator recorded before it is not
C24_Witness ==
    /\ Folding
    /\ \E u \in Range(Top.unary_logic_ops), b \in Range(Top.binary_logic_ops) :
           b < u /\ IsFolded(u) /\ ~IsFolded(b)

\* the nodes of t that hold n in their children lists, once per occurrence
Owners(t, n) ==
    {<<p, i>> \in (1..Len(t)) \X (1..Len(t)) :
        i <= Len(t[p].children) /\ t[p].children[i] = n}

RECURSIVE Ancestor(_, _, _)
\* the node k steps up from n along the stored parents, None past the root
Ancestor(t, n, k) ==
    IF n = None \/ k = 0 THEN n ELSE Ancestor(t, t[n].parent, k - 1)

\* the stored parent, lsb and rsb of every node of t agree with the
\* children lists, every node but the root has one owner, and the stored
\* parents lead to the root
Consistent(t) ==
    \A n \in 1..Len(t) :
        IF n = Root
        THEN Owners(t, n) = {} /\ t[n].parent = None
        ELSE /\ Cardinality(Owners(t, n)) = 1
             /\ \A o \in Owners(t, n) :
                    LET kids == t[o[1]].children
                    IN  /\ t[n].parent = o[1]
                        /\ t[n].lsb = IF o[2] = 1 THEN None ELSE kids[o[2] - 1]
                        /\ t[n].rsb = IF o[2] = Len(kids) THEN None ELSE kids[o[2] + 1]
             /\ Ancestor(t, n, Len(t)) = None
             /\ \E k \in 1..Len(t) : Ancestor(t, n, k) = Root

\* C25: after every step of the forward walk, of the second pass and of
\* list_to_tree the stored parent, left sibling and right sibling of every
\* node agree with the children lists, every node but the root is owned
\* once, and there is no cycle.
C25_PointersConsistent == Consistent(tree) /\ Consistent(tree2)

\* a tree with a folded binary operator that has a right sibling was
\* returned, and list_to_tree has rebuilt it
C25_Witness ==
    /\ Returned /\ ser = "rebuilt" /\ Len(tree2) = Len(tree)
    /\ \E n \in 1..Len(tree) :
           /\ tree[n].kind = "binarylogicop" /\ Len(tree[n].children) = 2
           /\ tree[n].rsb # None

====
